---- MODULE Spec2Model ----
(***************************************************************************)
(* Model of src/app.py: the article extractor (extract_article_text), the  *)
(* frequency-ranked extractive summarizer (textrank_summarize), the        *)
(* optional model call (hf_summarize) and the request handler              *)
(* (api_summarize).                                                        *)
(*                                                                         *)
(* Python strings are modelled as sequences of one-character strings, so   *)
(* that splitting, tokenizing, joining and slicing are computed character  *)
(* by character.                                                           *)
(***************************************************************************)
EXTENDS Integers, Sequences, FiniteSets, TLC

VARIABLES
    pc,            \* the function about to run, or "done"
    text,          \* textrank_summarize: the argument text
    n_sentences,   \* textrank_summarize: the argument n_sentences
    sentences,     \* textrank_summarize: the local `sentences` (line 69)
    best,          \* textrank_summarize: the local `best` (line 86)
    summary,       \* textrank_summarize: the returned string
    net,           \* what requests.get(url) meets: an exception or a response
    max_chars,     \* extract_article_text: the argument max_chars
    extracted,     \* extract_article_text: what it returned or raised
    data,          \* api_summarize: the JSON body of the request
    HF_AVAILABLE,  \* the module global set at import (lines 10-24)
    hf_model,      \* how the loaded model behaves when called
    response       \* api_summarize: the response, with the calls it made

vars == <<pc, text, n_sentences, sentences, best, summary, net, max_chars,
          extracted, data, HF_AVAILABLE, hf_model, response>>

(***************************************************************************)
(* Bounds of the model.                                                    *)
(***************************************************************************)
MaxLen == 7

MaxN == 2

MaxBlocks == 2

SmallMaxChars == 3

(***************************************************************************)
(* Characters.                                                             *)
(***************************************************************************)
\* the characters the regex class \s matches (str patterns)
Whitespace == {" ", "\n", "\t"}

\* the lookbehind class [.!?] of the sentence split
SentenceEnd == {".", "!", "?"}

UpperSeq == <<"A","B","C","D","E","F","G","H","I","J","K","L","M",
              "N","O","P","Q","R","S","T","U","V","W","X","Y","Z">>

LowerSeq == <<"a","b","c","d","e","f","g","h","i","j","k","l","m",
              "n","o","p","q","r","s","t","u","v","w","x","y","z">>

\* the regex class [a-zA-Z]
IsAlpha(c) == \E i \in 1..26 : c = UpperSeq[i] \/ c = LowerSeq[i]

\* str.lower() on one character
LowerChar(c) ==
    IF \E i \in 1..26 : c = UpperSeq[i]
    THEN LowerSeq[CHOOSE i \in 1..26 : c = UpperSeq[i]]
    ELSE c

\* str.lower()
lower(s) == [i \in 1..Len(s) |-> LowerChar(s[i])]

(***************************************************************************)
(* re.split(r'(?<=[.!?])\s+', text): a match starts at a whitespace        *)
(* character whose predecessor is '.', '!' or '?', and extends over the    *)
(* whole whitespace run; the pieces between the matches are returned, the  *)
(* last one included even when empty.                                      *)
(***************************************************************************)
RECURSIVE SkipWhitespace(_, _)
SkipWhitespace(s, i) ==
    IF i <= Len(s) /\ s[i] \in Whitespace THEN SkipWhitespace(s, i + 1) ELSE i

RECURSIVE SplitFrom(_, _, _, _)
SplitFrom(s, i, cur, acc) ==
    IF i > Len(s) THEN Append(acc, cur)
    ELSE IF s[i] \in Whitespace /\ i > 1 /\ s[i - 1] \in SentenceEnd
         THEN SplitFrom(s, SkipWhitespace(s, i), <<>>, Append(acc, cur))
         ELSE SplitFrom(s, i + 1, Append(cur, s[i]), acc)

split_sentences(s) == SplitFrom(s, 1, <<>>, <<>>)

(***************************************************************************)
(* re.findall(r"[a-zA-Z]+", s): the maximal runs of letters, in order.     *)
(***************************************************************************)
RECURSIVE FindFrom(_, _, _, _)
FindFrom(s, i, cur, acc) ==
    IF i > Len(s) THEN (IF cur = <<>> THEN acc ELSE Append(acc, cur))
    ELSE IF IsAlpha(s[i])
         THEN FindFrom(s, i + 1, Append(cur, s[i]), acc)
         ELSE FindFrom(s, i + 1, <<>>, IF cur = <<>> THEN acc ELSE Append(acc, cur))

findall_words(s) == FindFrom(lower(s), 1, <<>>, <<>>)

\* freq[w] after the loop of lines 75-77; freq.get(w, 0) for an absent word
freq_get(words, w) == Cardinality({i \in 1..Len(words) : words[i] = w})

RECURSIVE SumFreq(_, _, _)
SumFreq(words, s_words, i) ==
    IF i > Len(s_words) THEN 0
    ELSE freq_get(words, s_words[i]) + SumFreq(words, s_words, i + 1)

\* the score of sentence s, lines 82-83
sentence_score(words, s) == SumFreq(words, findall_words(s), 1)

(***************************************************************************)
(* The keys of the dict `scores` in iteration order: a dict keeps one      *)
(* entry per distinct key, in the order of first insertion.                *)
(***************************************************************************)
RECURSIVE DictKeysFrom(_, _, _)
DictKeysFrom(seq, i, acc) ==
    IF i > Len(seq) THEN acc
    ELSE DictKeysFrom(seq, i + 1,
            IF \E k \in 1..Len(acc) : acc[k] = seq[i] THEN acc ELSE Append(acc, seq[i]))

scores_keys(sents) == DictKeysFrom(sents, 1, <<>>)

(***************************************************************************)
(* heapq.nlargest(n, iterable, key), documented as equivalent to           *)
(* sorted(iterable, key=key, reverse=True)[:n]: a stable sort, so elements *)
(* of equal key keep their iteration order.  key is a function on the      *)
(* positions of keys.                                                      *)
(***************************************************************************)
\* the mutant of line 86: among equal keys the later element comes first
InsertDescLastFirst(sorted, p, key) ==
    LET ahead == Cardinality({k \in 1..Len(sorted) : key[sorted[k]] > key[p]})
    IN  SubSeq(sorted, 1, ahead) \o <<p>> \o SubSeq(sorted, ahead + 1, Len(sorted))

\* insert position p into the sorted list of positions `sorted`, after every
\* position whose key is greater or equal
InsertDesc(sorted, p, key) ==
    LET ahead == Cardinality({k \in 1..Len(sorted) : key[sorted[k]] >= key[p]})
    IN  SubSeq(sorted, 1, ahead) \o <<p>> \o SubSeq(sorted, ahead + 1, Len(sorted))

RECURSIVE SortedDescFrom(_, _, _, _)
SortedDescFrom(len, i, key, acc) ==
    IF i > len THEN acc
    ELSE SortedDescFrom(len, i + 1, key, InsertDesc(acc, i, key))

nlargest(n, keys, key) ==
    LET order == SortedDescFrom(Len(keys), 1, key, <<>>)
        m == IF n < Len(keys) THEN n ELSE Len(keys)
    IN  [k \in 1..m |-> keys[order[k]]]

(***************************************************************************)
(* " ".join(seq)                                                           *)
(***************************************************************************)
RECURSIVE JoinFrom(_, _, _)
JoinFrom(sep, seq, i) ==
    IF i > Len(seq) THEN <<>>
    ELSE IF i = Len(seq) THEN seq[i]
    ELSE seq[i] \o sep \o JoinFrom(sep, seq, i + 1)

\* the mutant of line 87: the separator is two characters long
join_two_spaces(seq) == JoinFrom(<<" ", " ">>, seq, 1)

join_space(seq) == JoinFrom(<<" ">>, seq, 1)

(***************************************************************************)
(* textrank_summarize, lines 67-87.                                        *)
(***************************************************************************)
\* the mutant of line 70: a text of exactly n sentences is ranked too
few_sentences_strict(sents, n) == Len(sents) < n

\* line 70
few_sentences(sents, n) == Len(sents) <= n

\* lines 73-86: the selected sentences
textrank_best(t, sents, n) ==
    LET words == findall_words(t)
        keys == scores_keys(sents)
        key == [k \in 1..Len(keys) |-> sentence_score(words, keys[k])]
    IN  nlargest(n, keys, key)

textrank_summarize(t, n) ==
    LET sents == split_sentences(t)
    IN  IF few_sentences(sents, n) THEN t
        ELSE join_space(textrank_best(t, sents, n))

(***************************************************************************)
(* String helpers used by the extractor.                                   *)
(***************************************************************************)
RECURSIVE LStrip(_)
LStrip(s) == IF s # <<>> /\ s[1] \in Whitespace THEN LStrip(Tail(s)) ELSE s

RECURSIVE RStrip(_)
RStrip(s) ==
    IF s # <<>> /\ s[Len(s)] \in Whitespace THEN RStrip(SubSeq(s, 1, Len(s) - 1)) ELSE s

\* str.strip()
strip(s) == RStrip(LStrip(s))

\* re.sub(r"\s+", " ", s): every maximal whitespace run becomes one space
RECURSIVE SubWhitespaceFrom(_, _)
SubWhitespaceFrom(s, i) ==
    IF i > Len(s) THEN <<>>
    ELSE IF s[i] \in Whitespace
         THEN <<" ">> \o SubWhitespaceFrom(s, SkipWhitespace(s, i))
         ELSE <<s[i]>> \o SubWhitespaceFrom(s, i + 1)

sub_whitespace(s) == SubWhitespaceFrom(s, 1)

\* s[:n]
slice_to(s, n) == SubSeq(s, 1, IF n < Len(s) THEN n ELSE Len(s))

\* the elements of a finite set of integers, in increasing order
RECURSIVE SetToSeq(_)
SetToSeq(S) ==
    IF S = {} THEN <<>>
    ELSE LET m == CHOOSE x \in S : \A y \in S : x <= y
         IN  <<m>> \o SetToSeq(S \ {m})

(***************************************************************************)
(* The parsed document (the BeautifulSoup tree) is the sequence of its     *)
(* nodes in document order, each with its depth below the root; the        *)
(* descendants of a node are the nodes that follow it while the depth      *)
(* stays greater than its own.  A text node has tag "#text".               *)
(***************************************************************************)
Txt(t) == <<[tag |-> "#text", depth |-> 0, text |-> t]>>

RECURSIVE Concat(_, _)
Concat(seqs, i) == IF i > Len(seqs) THEN <<>> ELSE seqs[i] \o Concat(seqs, i + 1)

Deeper(nodes) == [k \in 1..Len(nodes) |-> [nodes[k] EXCEPT !.depth = @ + 1]]

Elem(tag, kids) ==
    <<[tag |-> tag, depth |-> 0, text |-> <<>>]>> \o Deeper(Concat(kids, 1))

InSubtree(doc, a, i) ==
    a < i /\ \A k \in (a + 1)..i : doc[k].depth > doc[a].depth

\* line 41
RemovedTags == {"script", "style", "noscript", "iframe", "header", "footer", "nav"}

\* line 44
CandidateTags == {"article", "div", "section", "main"}

\* lines 41-42: every listed element is removed with its whole subtree
decompose_all(doc) ==
    LET gone(i) == \/ doc[i].tag \in RemovedTags
                   \/ \E a \in 1..(i - 1) :
                        doc[a].tag \in RemovedTags /\ InSubtree(doc, a, i)
        keep == SetToSeq({i \in 1..Len(doc) : ~gone(i)})
    IN  [k \in 1..Len(keep) |-> doc[keep[k]]]

\* find_all(tags) below node root (root = 0: the whole document), in document order
find_all(doc, root, tags) ==
    SetToSeq({i \in 1..Len(doc) :
                /\ doc[i].tag \in tags
                /\ (root = 0 \/ InSubtree(doc, root, i))})

\* Tag.stripped_strings: the descendant strings, each stripped, empty ones skipped
stripped_strings(doc, root) ==
    LET strs == find_all(doc, root, {"#text"})
        kept == SetToSeq({k \in 1..Len(strs) : strip(doc[strs[k]].text) # <<>>})
    IN  [k \in 1..Len(kept) |-> strip(doc[strs[kept[k]]].text)]

\* p.get_text(" ", strip=True), line 55
get_text(doc, p) == join_space(stripped_strings(doc, p))

\* lines 55-56: the paragraph text of candidate c
candidate_text(doc, c) ==
    LET ps == find_all(doc, c, {"p"})
        ptexts == [k \in 1..Len(ps) |-> get_text(doc, ps[k])]
    IN  strip(join_space(ptexts))

\* the mutant of line 57: a later candidate of equal length replaces the best
replaces_best_or_equal(len, best_len) == len >= best_len

\* line 57
replaces_best(len, best_len) == len > best_len

\* lines 45-46, 54-59: best_text after the loop over the candidates from k on
RECURSIVE BestTextFrom(_, _, _, _, _)
BestTextFrom(doc, cands, k, best_len, best_text) ==
    IF k > Len(cands) THEN best_text
    ELSE LET t == candidate_text(doc, cands[k])
         IN  IF replaces_best(Len(t), best_len)
             THEN BestTextFrom(doc, cands, k + 1, Len(t), t)
             ELSE BestTextFrom(doc, cands, k + 1, best_len, best_text)

\* line 52, before the slice
body_text(doc, body) == join_space(stripped_strings(doc, body))

\* line 61
cleaned_text(best_text) == strip(sub_whitespace(best_text))

\* lines 41-62, on the parsed tree
extract_from_soup(parsed, max) ==
    LET soup == decompose_all(parsed)
        candidates == find_all(soup, 0, CandidateTags)
        bodies == find_all(soup, 0, {"body"})
    IN  IF candidates = <<>> /\ bodies # <<>>
        THEN slice_to(body_text(soup, bodies[1]), max)
        ELSE slice_to(cleaned_text(BestTextFrom(soup, candidates, 1, 0, <<>>)), max)

(***************************************************************************)
(* Values: None, results and exceptions.                                   *)
(***************************************************************************)
\* Python's None where a string may stand; no string equals it, since every
\* element of a string is a single character
None == <<"<None>">>

\* a call that returned v / a call that raised exception class e
Return(v) == [raised |-> "", value |-> v]

Raise(e) == [raised |-> e, value |-> None]

\* `not s` for s a string or None
falsy(s) == s = None \/ s = <<>>

(***************************************************************************)
(* extract_article_text, lines 31-62.  net is what the network gives:      *)
(* requests.get raises (ConnectionError, Timeout; MissingSchema for a URL  *)
(* without scheme) or returns a response; raise_for_status raises          *)
(* HTTPError for the statuses 400..599.                                    *)
(***************************************************************************)
\* line 31
DefaultMaxChars == 20000

\* line 37: Response.raise_for_status
raises_for_status(status) == 400 <= status /\ status < 600

extract_article_text(url, nt, max) ==
    IF url = <<>> THEN Raise("MissingSchema")
    ELSE IF nt.kind # "response" THEN Raise(nt.kind)
    ELSE IF raises_for_status(nt.status) THEN Raise("HTTPError")
    ELSE Return(extract_from_soup(nt.doc, max))

(***************************************************************************)
(* hf_summarize, lines 92-99.  The model is opaque: when loaded, a call    *)
(* raises, returns the empty string or returns a summary.                  *)
(***************************************************************************)
ModelSummary == <<"m", "o", "d", "e", "l">>

hf_summarize(t, available, model) ==
    IF ~available THEN Return(None)
    ELSE IF model = "raises" THEN Raise("RuntimeError")
    ELSE IF model = "empty" THEN Return(<<>>)
    ELSE Return(ModelSummary)

(***************************************************************************)
(* api_summarize, lines 108-136.                                           *)
(***************************************************************************)
\* a JSON field that is missing / the JSON value null
Absent == <<"<absent>">>

Null == <<"<null>">>

\* line 130
SummarySentences == 4

\* the mutant of lines 124-127: the exception of the model call is not caught
attempt_hf_uncaught(prefer_hf, article, available, model) ==
    IF prefer_hf THEN hf_summarize(article, available, model) ELSE Return(None)

\* lines 122-127: `summary` before line 129; nothing is raised
attempt_hf(prefer_hf, article, available, model) ==
    IF prefer_hf
    THEN LET r == hf_summarize(article, available, model)
         IN  IF r.raised # "" THEN Return(None) ELSE r
    ELSE Return(None)

\* the mutant of line 114: only a missing url is refused
no_url_is_none(url) == url = None

\* line 114
no_url(url) == falsy(url)

\* line 132
used_hf_flag(available, prefer_hf, final_summary) ==
    available /\ prefer_hf /\ (final_summary # None /\ available)

Response(status, keys, error, article, final_summary, used_hf, by, calls) ==
    [status |-> status, keys |-> keys, error |-> error, article |-> article,
     summary |-> final_summary, used_hf |-> used_hf, summary_by |-> by,
     calls |-> calls]

\* jsonify({"error": ...}) or jsonify({"error": ..., "detail": ...})
ErrorResponse(status, keys, error, calls) ==
    Response(status, keys, error, None, None, FALSE, "", calls)

\* lines 117-136, for a request with a url
summarize_url(url, prefer_hf, nt, available, model) ==
    LET ex == extract_article_text(url, nt, DefaultMaxChars)
    IN  IF ex.raised = "HTTPError"
        THEN ErrorResponse(502, {"error", "detail"}, "failed to fetch url", {"fetch"})
        ELSE IF ex.raised # ""
        THEN ErrorResponse(500, {"error", "detail"}, "internal error", {"fetch"})
        ELSE IF falsy(ex.value)
        THEN ErrorResponse(422, {"error"}, "no article text extracted", {"fetch"})
        ELSE
        LET article == ex.value
            hf == attempt_hf(prefer_hf, article, available, model)
            called == {"fetch"} \cup (IF prefer_hf THEN {"hf_summarize"} ELSE {})
        IN  IF hf.raised # ""
            THEN ErrorResponse(500, {"error", "detail"}, "internal error", called)
            ELSE IF falsy(hf.value)
            THEN LET s == textrank_summarize(article, SummarySentences)
                 IN  Response(200, {"article", "summary", "used_hf"}, "", article, s,
                              used_hf_flag(available, prefer_hf, s), "textrank_summarize",
                              called \cup {"textrank_summarize"})
            ELSE Response(200, {"article", "summary", "used_hf"}, "", article, hf.value,
                          used_hf_flag(available, prefer_hf, hf.value), "hf_summarize",
                          called)

\* lines 109-136.  A body that is not a JSON object, or a url that is not a
\* string, makes line 111 raise AttributeError outside the try: the framework
\* answers 500 with its own error page.
api_summarize(d, nt, available, model) ==
    IF d.body = "array" \/ d.url = Null
    THEN ErrorResponse(500, {}, "", {})
    ELSE LET url == strip(IF d.url = Absent THEN <<>> ELSE d.url)
             prefer_hf == d.prefer_hf # "false"
         IN  IF no_url(url)
             THEN ErrorResponse(400, {"error"}, "no url provided", {})
             ELSE summarize_url(url, prefer_hf, nt, available, model)

(***************************************************************************)
(* Inputs of textrank_summarize: every text over Alphabet of at most       *)
(* MaxLen characters with every n up to MaxN, and some longer calls.       *)
(***************************************************************************)
Alphabet == {"a", "B", ".", " "}

Texts == UNION {[1..k -> Alphabet] : k \in 0..MaxLen}

\* "Cats are small. Cats are furry. Cats like fish. Dogs bark loudly."
CatsText ==
    <<"C","a","t","s"," ","a","r","e"," ","s","m","a","l","l","."," ",
      "C","a","t","s"," ","a","r","e"," ","f","u","r","r","y","."," ",
      "C","a","t","s"," ","l","i","k","e"," ","f","i","s","h","."," ",
      "D","o","g","s"," ","b","a","r","k"," ","l","o","u","d","l","y",".">>

\* "Cats are small. Cats are furry."
CatsSummary ==
    <<"C","a","t","s"," ","a","r","e"," ","s","m","a","l","l","."," ",
      "C","a","t","s"," ","a","r","e"," ","f","u","r","r","y",".">>

\* "a. b. a b. c. a!"
FiveSentences ==
    <<"a","."," ","b","."," ","a"," ","b","."," ","c","."," ","a","!">>

SampleCalls ==
    { <<CatsText, 2>>,
      <<CatsText, 1>>,
      <<CatsText, 3>>,
      <<CatsText, SummarySentences>>,
      <<FiveSentences, SummarySentences>>,
      \* ". ! ? "
      << <<".", " ", "!", " ", "?", " ">>, 3 >>,
      \* "Hi. Hi. Hi."
      << <<"H","i","."," ","H","i","."," ","H","i",".">>, 2 >>,
      \* "It is 9 am.\n\nIs it? it IS!\tYes."
      << <<"I","t"," ","i","s"," ","9"," ","a","m",".","\n","\n",
           "I","s"," ","i","t","?"," ","i","t"," ","I","S","!","\t",
           "Y","e","s",".">>, 2 >>,
      \* "a.b. B a? b"
      << <<"a",".","b","."," ","B"," ","a","?"," ","b">>, 1 >> }

TextrankCalls == (Texts \X (1..MaxN)) \cup SampleCalls

(***************************************************************************)
(* Documents: up to MaxBlocks blocks, bare or inside a body element.       *)
(***************************************************************************)
T_ab == <<"a", "b">>

T_cd == <<"c", "d">>

\* "e  f"
T_e__f == <<"e", " ", " ", "f">>

\* " g\n"
T_g == <<" ", "g", "\n">>

T_ws == <<" ">>

P(t) == Elem("p", <<Txt(t)>>)

Blocks ==
    {Txt(T_e__f), Txt(T_g), Txt(T_ws), P(T_ab), P(T_e__f)}
    \cup {Elem(tag, <<P(t)>>) : tag \in {"div", "article"},
                                 t \in {T_ab, T_cd, T_e__f, T_g}}
    \cup { Elem("div", <<Elem("p", <<>>)>>),
           Elem("div", <<Txt(T_ab)>>),
           Elem("div", <<Elem("p", <<>>), P(T_cd)>>),
           Elem("nav", <<P(T_ab \o T_cd \o T_e__f)>>),
           Elem("script", <<Txt(T_ab)>>),
           Elem("span", <<Txt(T_cd)>>),
           Elem("div", <<Elem("nav", <<P(T_e__f)>>), P(T_ab)>>),
           Elem("section", <<Elem("main", <<P(T_ab)>>), P(T_cd)>>),
           Elem("div", <<P(T_ab), Txt(T_ws),
                         Elem("p", <<Txt(T_g), Elem("b", <<Txt(T_cd)>>)>>)>>) }

BlockSeqs(n) == UNION {[1..k -> Blocks] : k \in 0..n}

DocsOf(n) ==
    {Concat(bs, 1) : bs \in BlockSeqs(n)}
    \cup {Elem("body", bs) : bs \in BlockSeqs(n)}

\* <body><div><p>a. b. a b. c. a!</p></div></body>
LongDoc == Elem("body", <<Elem("div", <<P(FiveSentences)>>)>>)

\* what the network gives for a URL
NetOutcomes(docs) ==
    {[kind |-> k, status |-> 0, doc |-> <<>>] : k \in {"ConnectionError", "Timeout"}}
    \cup {[kind |-> "response", status |-> st, doc |-> Txt(T_ab)] : st \in {304, 404, 503}}
    \cup {[kind |-> "response", status |-> 200, doc |-> d] : d \in docs}

NoNet == [kind |-> "none", status |-> 0, doc |-> <<>>]

NoData == [body |-> "none", url |-> Absent, prefer_hf |-> "absent"]

NoResponse == ErrorResponse(0, {}, "", {})

\* the JSON bodies of requests
ValidUrl == <<"u">>

Requests ==
    {[body |-> "object", url |-> u, prefer_hf |-> p] :
        u \in {Absent, Null, <<>>, <<" ">>, ValidUrl, <<" ", "u", "\n">>},
        p \in {"absent", "true", "false"}}
    \cup {[body |-> "null", url |-> Absent, prefer_hf |-> "absent"],
          [body |-> "array", url |-> Absent, prefer_hf |-> "absent"]}

(***************************************************************************)
(* textrank_summarize called on one input.                                 *)
(***************************************************************************)
InitTextrank ==
    /\ pc = "textrank_summarize"
    /\ \E call \in TextrankCalls : text = call[1] /\ n_sentences = call[2]
    /\ sentences = <<>>
    /\ best = <<>>
    /\ summary = None
    /\ net = NoNet
    /\ max_chars = DefaultMaxChars
    /\ extracted = Return(None)
    /\ data = NoData
    /\ HF_AVAILABLE = FALSE
    /\ hf_model = "absent"
    /\ response = NoResponse

TextrankSummarize ==
    /\ pc = "textrank_summarize"
    /\ pc' = "done"
    /\ sentences' = split_sentences(text)
    /\ best' = IF few_sentences(sentences', n_sentences) THEN <<>>
               ELSE textrank_best(text, sentences', n_sentences)
    /\ summary' = textrank_summarize(text, n_sentences)
    /\ UNCHANGED <<text, n_sentences, net, max_chars, extracted, data,
                   HF_AVAILABLE, hf_model, response>>

NextTextrank == TextrankSummarize

SpecTextrank == InitTextrank /\ [][NextTextrank]_vars

(***************************************************************************)
(* extract_article_text called on one URL.                                 *)
(***************************************************************************)
InitExtract ==
    /\ pc = "extract_article_text"
    /\ net \in NetOutcomes(DocsOf(MaxBlocks))
    /\ max_chars \in {SmallMaxChars, DefaultMaxChars}
    /\ extracted = Return(None)
    /\ text = <<>>
    /\ n_sentences = SummarySentences
    /\ sentences = <<>>
    /\ best = <<>>
    /\ summary = None
    /\ data = NoData
    /\ HF_AVAILABLE = FALSE
    /\ hf_model = "absent"
    /\ response = NoResponse

ExtractArticleText ==
    /\ pc = "extract_article_text"
    /\ pc' = "done"
    /\ extracted' = extract_article_text(ValidUrl, net, max_chars)
    /\ UNCHANGED <<text, n_sentences, sentences, best, summary, net, max_chars,
                   data, HF_AVAILABLE, hf_model, response>>

NextExtract == ExtractArticleText

SpecExtract == InitExtract /\ [][NextExtract]_vars

(***************************************************************************)
(* One request to POST /api/summarize.                                     *)
(***************************************************************************)
InitApi ==
    /\ pc = "api_summarize"
    /\ data \in Requests
    /\ net \in NetOutcomes(DocsOf(1) \cup {LongDoc})
    /\ \/ HF_AVAILABLE = FALSE /\ hf_model = "absent"
       \/ HF_AVAILABLE = TRUE /\ hf_model \in {"raises", "empty", "summary"}
    /\ response = NoResponse
    /\ max_chars = DefaultMaxChars
    /\ extracted = Return(None)
    /\ text = <<>>
    /\ n_sentences = SummarySentences
    /\ sentences = <<>>
    /\ best = <<>>
    /\ summary = None

ApiSummarize ==
    /\ pc = "api_summarize"
    /\ pc' = "done"
    /\ response' = api_summarize(data, net, HF_AVAILABLE, hf_model)
    /\ UNCHANGED <<text, n_sentences, sentences, best, summary, net, max_chars,
                   extracted, data, HF_AVAILABLE, hf_model>>

NextApi == ApiSummarize

SpecApi == InitApi /\ [][NextApi]_vars

(***************************************************************************)
(* Properties of textrank_summarize, under SpecTextrank.                   *)
(***************************************************************************)
Returned == pc = "done"

\* the strings made of n elements of the sentence list joined by single spaces
JoinsOfSentences(n) ==
    {join_space([k \in 1..n |-> sentences[pick[k]]]) :
        pick \in [1..n -> 1..Len(sentences)]}

\* C1: when the split yields more than n sentences, the returned string is
\* exactly n sentences joined by single spaces, each an element of the
\* sentence list, also when a sentence string occurs more than once.
C1_ExactlyNSentences ==
    (Returned /\ Len(sentences) > n_sentences)
        => summary \in JoinsOfSentences(n_sentences)

\* C2: when the split yields at most n sentences the text is returned
\* unchanged, character for character; the empty text splits into one empty
\* sentence and is returned as the empty string.
C2_FewSentencesUnchanged ==
    Returned =>
        /\ Len(sentences) <= n_sentences => summary = text
        /\ text = <<>> => (sentences = << <<>> >> /\ summary = <<>>)

\* C2 witness: a text of at least two sentences, all of them within n, with a
\* separator that a join would not reproduce, has been returned as it was
C2_Witness ==
    /\ Returned
    /\ Len(sentences) >= 2
    /\ Len(sentences) <= n_sentences
    /\ join_space(sentences) # text
    /\ summary = text

\* C3: the summary is never longer than the text.
C3_NeverExpands == Returned => Len(summary) <= Len(text)

\* C3 witness: sentences were selected and the summary is shorter than the text
C3_Witness ==
    /\ Returned
    /\ Len(sentences) > n_sentences
    /\ Len(best) = n_sentences
    /\ Len(summary) < Len(text)

PairwiseDistinct(seq) ==
    \A i, j \in 1..Len(seq) : seq[i] = seq[j] => i = j

\* the position in the sentence list of a sentence that occurs in it
PositionOf(s) == CHOOSE i \in 1..Len(sentences) : sentences[i] = s

\* the score of the i-th sentence: the sum, over its lowercase alphabetic
\* tokens, of the token's count among the tokens of the whole text
ScoreOf(i) == sentence_score(findall_words(text), sentences[i])

\* C9: for pairwise distinct sentences numbering more than n, the result is the
\* first n sentences of the stable descending sort by score, joined by single
\* spaces: n sentences of the list, in non-increasing score order, equal scores
\* in original order, no unselected sentence ahead of a selected one in that
\* order; and the Cats example with n = 2 gives its first two sentences.
C9_StableTopN ==
    /\ (Returned /\ PairwiseDistinct(sentences) /\ Len(sentences) > n_sentences) =>
        /\ Len(best) = n_sentences
        /\ \A k \in 1..Len(best) : \E i \in 1..Len(sentences) : sentences[i] = best[k]
        /\ \A j, k \in 1..Len(best) : j < k =>
              LET a == PositionOf(best[j])
                  b == PositionOf(best[k])
              IN  ScoreOf(a) > ScoreOf(b) \/ (ScoreOf(a) = ScoreOf(b) /\ a < b)
        /\ \A u \in 1..Len(sentences) :
              (\A k \in 1..Len(best) : best[k] # sentences[u]) =>
                 \A k \in 1..Len(best) :
                    LET b == PositionOf(best[k])
                    IN  ScoreOf(u) < ScoreOf(b) \/ (ScoreOf(u) = ScoreOf(b) /\ b < u)
        /\ summary = join_space(best)
    /\ (Returned /\ text = CatsText /\ n_sentences = 2) => summary = CatsSummary

\* C9 witness: distinct sentences, more than n; the selection starts with a
\* sentence other than the first of the text and holds two sentences of equal
\* score, which stand in their original order
C9_Witness ==
    /\ Returned
    /\ PairwiseDistinct(sentences)
    /\ Len(sentences) > n_sentences
    /\ Len(best) = n_sentences
    /\ best[1] # sentences[1]
    /\ \E j, k \in 1..Len(best) :
          /\ j < k
          /\ ScoreOf(PositionOf(best[j])) = ScoreOf(PositionOf(best[k]))
          /\ ScoreOf(PositionOf(best[j])) > 0
    /\ summary = join_space(best)

(***************************************************************************)
(* Properties of extract_article_text, under SpecExtract.                  *)
(***************************************************************************)
Extracted == pc = "done" /\ extracted.raised = ""

\* the tree after lines 41-42 and its candidates (line 44)
Soup == decompose_all(net.doc)

Candidates == find_all(Soup, 0, CandidateTags)

\* whitespace normalized to single spaces
SingleSpaced(s) ==
    \A i \in 1..Len(s) :
        s[i] \in Whitespace =>
            /\ s[i] = " "
            /\ (i < Len(s) => s[i + 1] \notin Whitespace)

\* C7: every returned string has its whitespace normalized to single spaces,
\* on the best-candidate path and on the full-body path.
C7_WhitespaceNormalized == Extracted => SingleSpaced(extracted.value)

\* C8: with at least one candidate, the returned text is the whitespace-
\* collapsed paragraph text, cut to max_chars, of the first candidate in
\* document order among those whose paragraph text is longest.
C8_LongestFirstCandidate ==
    (Extracted /\ Candidates # <<>>) =>
        \E k \in 1..Len(Candidates) :
            LET len(j) == Len(candidate_text(Soup, Candidates[j]))
            IN  /\ \A j \in 1..Len(Candidates) : len(j) <= len(k)
                /\ \A j \in 1..(k - 1) : len(j) < len(k)
                /\ extracted.value =
                      slice_to(strip(sub_whitespace(candidate_text(Soup, Candidates[k]))),
                               max_chars)

\* C8 witness: two candidates tie for the longest paragraph text with different
\* texts, and the text of the earlier one has been returned uncut
C8_Witness ==
    /\ Extracted
    /\ \E j, k \in 1..Len(Candidates) :
          LET tj == candidate_text(Soup, Candidates[j])
              tk == candidate_text(Soup, Candidates[k])
          IN  /\ j < k
              /\ Len(tj) = Len(tk)
              /\ strip(sub_whitespace(tj)) # strip(sub_whitespace(tk))
              /\ \A i \in 1..Len(Candidates) :
                    Len(candidate_text(Soup, Candidates[i])) <= Len(tj)
              /\ \A i \in 1..(j - 1) :
                    Len(candidate_text(Soup, Candidates[i])) < Len(tj)
              /\ extracted.value = strip(sub_whitespace(tj))
              /\ extracted.value # <<>>

(***************************************************************************)
(* Properties of api_summarize, under SpecApi.                             *)
(***************************************************************************)
Responded == pc = "done"

\* the request carries a url that is a non-blank string
HasUrl == data.body = "object" /\ data.url \notin {Absent, Null} /\ strip(data.url) # <<>>

\* the fetch succeeded: a response came and raise_for_status let it pass
FetchSucceeded == net.kind = "response" /\ ~raises_for_status(net.status)

\* the article extracted from the fetched page
Article == extract_from_soup(net.doc, DefaultMaxChars)

\* the model is unavailable, raises, or returns an empty summary
ModelFails == ~HF_AVAILABLE \/ hf_model \in {"raises", "empty"}

\* C4: after a successful fetch of a non-empty article, a model that is
\* unavailable, raises or returns an empty summary gives no error response:
\* the answer is 200 and the summary is textrank_summarize(article, 4).
C4_ModelFailureFallsBack ==
    (Responded /\ HasUrl /\ FetchSucceeded /\ Article # <<>> /\ ModelFails) =>
        /\ response.status = 200
        /\ response.article = Article
        /\ response.summary = textrank_summarize(Article, 4)

\* C4 witness: the model was preferred, loaded and raised; the article had
\* more than four sentences and the answer carries its ranked summary
C4_Witness ==
    /\ Responded /\ HasUrl /\ FetchSucceeded
    /\ HF_AVAILABLE /\ hf_model = "raises" /\ data.prefer_hf # "false"
    /\ Len(split_sentences(Article)) > 4
    /\ response.status = 200
    /\ "hf_summarize" \in response.calls
    /\ response.summary = textrank_summarize(Article, 4)
    /\ response.summary # Article

\* the fetch of the source URL failed: at the network level, or with a status
\* outside 200..299
FetchFailed ==
    \/ net.kind \in {"ConnectionError", "Timeout"}
    \/ net.kind = "response" /\ ~(200 <= net.status /\ net.status <= 299)

\* C5: every fetch failure, network-level or a non-2xx status, is answered
\* with 502, never with 500.
C5_FetchFailureIs502 ==
    (Responded /\ HasUrl /\ FetchFailed) => response.status = 502

\* C6: a body without url field, or with an empty url, is answered with 400
\* and an "error" key, and neither the fetch nor a summarizer is called.
\* (The body is a JSON object, or null, which line 110 turns into {}.)
C6_NoUrlIs400 ==
    (Responded /\ data.body \in {"object", "null"} /\ data.url \in {Absent, <<>>}) =>
        /\ response.status = 400
        /\ "error" \in response.keys
        /\ response.calls = {}

\* C6 witness: an empty url was refused although the fetch would have
\* succeeded and the model was loaded
C6_Witness ==
    /\ Responded
    /\ data.body = "object" /\ data.url = <<>>
    /\ FetchSucceeded /\ Article # <<>> /\ HF_AVAILABLE
    /\ response.status = 400
    /\ response.error = "no url provided"
    /\ response.calls = {}

\* C10: in every 200 response used_hf is true exactly when the summary is the
\* one hf_summarize produced.
C10_UsedHfIffModelSummary ==
    (Responded /\ response.status = 200) =>
        (response.used_hf <=> response.summary_by = "hf_summarize")

====
